---- MODULE Spec2Model ----
(***************************************************************************)
(* Model of the bash-to-zsh configuration migrator, ConfigMerger, of       *)
(* scripts/merge-bashrc-to-zshrc.py.                                       *)
(*                                                                         *)
(* File contents, lines and entries are TLA+ strings, character for        *)
(* character what the Python code reads and writes ("\n" is the newline,   *)
(* "\\" one backslash).  The regular expressions of the code are written   *)
(* out as operators over character positions (1-based).                    *)
(***************************************************************************)
EXTENDS Integers, Sequences, FiniteSets, TLC

(***************************************************************************)
(* Python str primitives                                                   *)
(***************************************************************************)

\* s[i-1] in Python terms; "" outside the string.
Ch(s, i) == IF i >= 1 /\ i <= Len(s) THEN SubSeq(s, i, i) ELSE ""

\* The slice s[m-1:n], clamped like a Python slice.
Sub(s, m, n) ==
    LET lo == IF m < 1 THEN 1 ELSE m
        hi == IF n > Len(s) THEN Len(s) ELSE n
    IN  IF lo > hi THEN "" ELSE SubSeq(s, lo, hi)

MinOf(S) == CHOOSE v \in S : \A w \in S : v <= w

MaxOf(S) == CHOOSE v \in S : \A w \in S : v >= w

\* str.isspace() / regex \s on one character.
IsSpace(c) == c \in {" ", "\t", "\n", "\r", "\f"}

\* regex \w on one character.
IsWord(c) ==
    c \in {"a","b","c","d","e","f","g","h","i","j","k","l","m","n","o","p","q",
           "r","s","t","u","v","w","x","y","z",
           "A","B","C","D","E","F","G","H","I","J","K","L","M","N","O","P","Q",
           "R","S","T","U","V","W","X","Y","Z",
           "0","1","2","3","4","5","6","7","8","9","_"}

\* The first position >= i that holds no whitespace (Len(s)+1 when none).
SkipSpace(s, i) ==
    LET S == {j \in i..Len(s) : ~IsSpace(Ch(s, j))}
    IN  IF S = {} THEN Len(s) + 1 ELSE MinOf(S)

\* The first position >= i that holds no word character.
SkipWord(s, i) ==
    LET S == {j \in i..Len(s) : ~IsWord(Ch(s, j))}
    IN  IF S = {} THEN Len(s) + 1 ELSE MinOf(S)

\* The first position >= i that holds whitespace.
SkipNonSpace(s, i) ==
    LET S == {j \in i..Len(s) : IsSpace(Ch(s, j))}
    IN  IF S = {} THEN Len(s) + 1 ELSE MinOf(S)

\* str.lstrip()
LStrip(s) == Sub(s, SkipSpace(s, 1), Len(s))

\* str.strip()
Strip(s) ==
    LET S == {j \in 1..Len(s) : ~IsSpace(Ch(s, j))}
    IN  IF S = {} THEN "" ELSE SubSeq(s, MinOf(S), MaxOf(S))

\* s[i-1:].startswith(p)
StartsWithAt(s, i, p) == Sub(s, i, i + Len(p) - 1) = p /\ i + Len(p) - 1 <= Len(s)

StartsWith(s, p) == StartsWithAt(s, 1, p)

EndsWith(s, p) == Len(s) >= Len(p) /\ Sub(s, Len(s) - Len(p) + 1, Len(s)) = p

\* s.find(p, i-1) + 1: the first position >= i where p occurs, 0 when none.
Find(s, p, i) ==
    LET S == {j \in i..(Len(s) - Len(p) + 1) : SubSeq(s, j, j + Len(p) - 1) = p}
    IN  IF S = {} THEN 0 ELSE MinOf(S)

\* p in s
Contains(s, p) == Find(s, p, 1) # 0

\* ' ' * n
RECURSIVE Spaces(_)
Spaces(n) == IF n <= 0 THEN "" ELSE " " \o Spaces(n - 1)

\* ''.join(seq)
RECURSIVE Join(_)
Join(seq) == IF seq = <<>> THEN "" ELSE Head(seq) \o Join(Tail(seq))

\* '\n'.join(seq)
RECURSIVE JoinNL(_)
JoinNL(seq) ==
    IF seq = <<>> THEN ""
    ELSE IF Len(seq) = 1 THEN Head(seq)
    ELSE Head(seq) \o "\n" \o JoinNL(Tail(seq))

\* f.readlines(): the lines of s, each with its "\n" (the last may lack it).
RECURSIVE ReadLines(_)
ReadLines(s) ==
    IF s = "" THEN <<>>
    ELSE LET nl == Find(s, "\n", 1)
         IN  IF nl = 0 THEN <<s>>
             ELSE <<SubSeq(s, 1, nl)>> \o ReadLines(Sub(s, nl + 1, Len(s)))

\* s.split('\n'): the pieces between newlines (always at least one piece).
RECURSIVE SplitNL(_)
SplitNL(s) ==
    LET nl == Find(s, "\n", 1)
    IN  IF nl = 0 THEN <<s>>
        ELSE <<Sub(s, 1, nl - 1)>> \o SplitNL(Sub(s, nl + 1, Len(s)))

\* s.split(): the maximal runs of non-whitespace.
RECURSIVE SplitWS(_)
SplitWS(s) ==
    LET b == SkipSpace(s, 1)
    IN  IF b > Len(s) THEN <<>>
        ELSE LET e == SkipNonSpace(s, b)
             IN  <<SubSeq(s, b, e - 1)>> \o SplitWS(Sub(s, e, Len(s)))

(***************************************************************************)
(* ConfigMerger constants                                                  *)
(***************************************************************************)

marker_start == "# --- Merged from .bashrc ---"

marker_end == "# --- End of .bashrc merge ---"

(***************************************************************************)
(* normalize_line                                                          *)
(***************************************************************************)

\* normalize_line that keeps the inline comment.
normalize_line_uncut(line) == Strip(line)

\* line.strip(), then cut at the first '#' unless the text starts with '#'.
normalize_line(line) ==
    LET normalized == Strip(line)
        h == Find(normalized, "#", 1)
    IN  IF h # 0 /\ ~StartsWith(normalized, "#")
        THEN Strip(Sub(normalized, 1, h - 1))
        ELSE normalized

(***************************************************************************)
(* is_significant_line and extract_config_entries                          *)
(***************************************************************************)

\* re.match(r'^\s*if\s+\[\s*-f\s+.*\]', line)
MatchesGuard(line) ==
    LET i == SkipSpace(line, 1)
        a == i + 2
        b == SkipSpace(line, a)
        c == SkipSpace(line, b + 1)
        d == c + 2
    IN  /\ StartsWithAt(line, i, "if")
        /\ b > a
        /\ Ch(line, b) = "["
        /\ StartsWithAt(line, c, "-f")
        /\ IsSpace(Ch(line, d))
        /\ \E q \in (d + 1)..Len(line) :
              /\ Ch(line, q) = "]"
              /\ \E e \in (d + 1)..q :
                    /\ \A j \in d..(e - 1) : IsSpace(Ch(line, j))
                    /\ \A j \in e..(q - 1) : Ch(line, j) # "\n"

\* re.match(r'^\s*fi\s*$', line)
MatchesFi(line) ==
    LET i == SkipSpace(line, 1)
    IN  /\ StartsWithAt(line, i, "fi")
        /\ SkipSpace(line, i + 2) > Len(line)

is_significant_line(line) ==
    LET normalized == Strip(line)
    IN  /\ normalized # ""
        /\ ~StartsWith(normalized, "#")
        /\ ~MatchesGuard(line)
        /\ ~MatchesFi(line)

\* re.match(r'^\s*function\s+\w+|^\s*\w+\s*\(\s*\)', line)
IsFunctionOpener(line) ==
    LET i == SkipSpace(line, 1)
        k == SkipSpace(line, i + 8)
        w == SkipWord(line, i)
        p == SkipSpace(line, w)
        q == SkipSpace(line, p + 1)
    IN  \/ /\ StartsWithAt(line, i, "function")
           /\ k > i + 8
           /\ IsWord(Ch(line, k))
        \/ /\ w > i
           /\ Ch(line, p) = "("
           /\ Ch(line, q) = ")"

\* The loop of extract_config_entries from line i on; cur is the text of
\* current_block (''.join of its lines), inf is in_function.
RECURSIVE ExtractLoop(_, _, _, _, _)
ExtractLoop(lines, i, blocks, cur, inf) ==
    IF i > Len(lines) THEN blocks
    ELSE LET line == lines[i]
             stripped == Strip(line)
         IN  IF IsFunctionOpener(line)
             THEN ExtractLoop(lines, i + 1, blocks, line, TRUE)
             ELSE IF inf
             THEN IF stripped = "}"
                  THEN ExtractLoop(lines, i + 1, Append(blocks, cur \o line), "", FALSE)
                  ELSE ExtractLoop(lines, i + 1, blocks, cur \o line, TRUE)
             ELSE IF ~is_significant_line(line)
             THEN ExtractLoop(lines, i + 1, blocks, cur, FALSE)
             ELSE IF EndsWith(stripped, "\\")
             THEN ExtractLoop(lines, i + 1, blocks, cur \o line, FALSE)
             ELSE IF cur # ""
             THEN ExtractLoop(lines, i + 1, Append(blocks, cur \o line), "", FALSE)
             ELSE ExtractLoop(lines, i + 1, Append(blocks, line), cur, FALSE)

\* A file is [exists, content]; a missing file yields no entries.
extract_config_entries(file) ==
    IF ~file.exists THEN <<>>
    ELSE ExtractLoop(ReadLines(file.content), 1, <<>>, "", FALSE)

\* {normalize_line(config) for config in extract_config_entries(file)}
get_existing_configs(file) ==
    LET configs == extract_config_entries(file)
    IN  {normalize_line(configs[i]) : i \in 1..Len(configs)}

(***************************************************************************)
(* transform_to_zsh                                                        *)
(***************************************************************************)

\* len(line) - len(line.lstrip())
Indent(line) == Len(line) - Len(LStrip(line))

\* An empty shopt_to_setopt table.
shopt_to_setopt_empty(opt) == opt

\* shopt_to_setopt.get(opt, opt)
shopt_to_setopt(opt) ==
    CASE opt = "histappend" -> "append_history"
      [] opt = "cdspell"    -> "correct"
      [] opt = "nocaseglob" -> "no_case_glob"
      [] opt = "extglob"    -> "extended_glob"
      [] opt = "dotglob"    -> "glob_dots"
      [] opt = "nullglob"   -> "null_glob"
      [] OTHER              -> opt

\* re.match(r'^\s*shopt\s+(-[su])\s+(.+)', line)
shopt_match(line) ==
    LET i == SkipSpace(line, 1)
        b == SkipSpace(line, i + 5)
    IN  /\ StartsWithAt(line, i, "shopt")
        /\ b > i + 5
        /\ Ch(line, b) = "-"
        /\ Ch(line, b + 1) \in {"s", "u"}
        /\ IsSpace(Ch(line, b + 2))
        /\ b + 3 <= Len(line)

\* The lines the shopt rule emits: one per option of options.split().
ShoptLines(line) ==
    LET b == SkipSpace(line, SkipSpace(line, 1) + 5)
        flag == Ch(line, b + 1)
        opt_list == SplitWS(Sub(line, b + 2, Len(line)))
        word == IF flag = "s" THEN "setopt " ELSE "unsetopt "
    IN  [k \in 1..Len(opt_list) |->
            Spaces(Indent(line)) \o word \o shopt_to_setopt(opt_list[k])]

IsQuote(c) == c \in {"'", "\""}

\* re.match(r'^\s*PROMPT_COMMAND=[\'"](.*)[\'"]', line)
prompt_cmd_match(line) ==
    LET a == SkipSpace(line, 1) + 15
    IN  /\ StartsWithAt(line, a - 15, "PROMPT_COMMAND=")
        /\ IsQuote(Ch(line, a))
        /\ \E z \in (a + 1)..Len(line) : IsQuote(Ch(line, z))

\* The rewrite with a lazy (.*?): group 1 ends at the first quote.
PromptLine_lazy(line) ==
    LET a == SkipSpace(line, 1) + 15
        z == MinOf({j \in (a + 1)..Len(line) : IsQuote(Ch(line, j))})
    IN  Spaces(Indent(line)) \o "precmd() { " \o Sub(line, a + 1, z - 1) \o " }"

\* precmd() { <group 1> }: the greedy (.*) runs to the last quote of the line.
PromptLine(line) ==
    LET a == SkipSpace(line, 1) + 15
        z == MaxOf({j \in (a + 1)..Len(line) : IsQuote(Ch(line, j))})
    IN  Spaces(Indent(line)) \o "precmd() { " \o Sub(line, a + 1, z - 1) \o " }"

\* Whether \s+(\S+)\s+(\S+) matches right after the "-F" at position p.
CompleteTailAt(line, p) ==
    LET f  == SkipSpace(line, p + 2)
        fe == SkipNonSpace(line, f)
        c  == SkipSpace(line, fe)
    IN  /\ StartsWithAt(line, p, "-F")
        /\ IsSpace(Ch(line, p + 2))
        /\ f <= Len(line)
        /\ fe <= Len(line)
        /\ c <= Len(line)

\* The positions of "-F" at which r'^\s*complete\s+.*-F\s+(\S+)\s+(\S+)' can match.
CompletePositions(line) ==
    LET a == SkipSpace(line, 1) + 8
    IN  IF StartsWithAt(line, a - 8, "complete") /\ IsSpace(Ch(line, a))
        THEN {p \in (a + 1)..Len(line) : CompleteTailAt(line, p)}
        ELSE {}

complete_match(line) == CompletePositions(line) # {}

\* compdef <func> <cmd>: the greedy .* takes the last "-F" that fits.
CompleteLine(line) ==
    LET p  == MaxOf(CompletePositions(line))
        f  == SkipSpace(line, p + 2)
        fe == SkipNonSpace(line, f)
        c  == SkipSpace(line, fe)
        ce == SkipNonSpace(line, c)
    IN  Spaces(Indent(line)) \o "compdef " \o Sub(line, f, fe - 1) \o " "
            \o Sub(line, c, ce - 1)

\* The replacements dict, in its insertion order.
replacements ==
    << <<"BASH_VERSION", "ZSH_VERSION">>,
       <<"BASH_SOURCE", "${(%):-%x}">>,
       <<"BASHPID", "$$">>,
       <<"BASH_REMATCH", "match">> >>

\* The braced replacement without the startswith('$') test.
BracedReplacement_wrapped(zsh_var) == "${" \o zsh_var \o "}"

\* zsh_var if zsh_var.startswith('$') else f'${{{zsh_var}}}'
BracedReplacement(zsh_var) ==
    IF StartsWith(zsh_var, "$") THEN zsh_var ELSE "${" \o zsh_var \o "}"

\* Where a match of r'\$\{\s*VAR\s*\}' that starts at j ends (0: no match at j).
BracedEnd(s, j, bash_var) ==
    LET k == SkipSpace(s, j + 2)
        e == SkipSpace(s, k + Len(bash_var))
    IN  IF StartsWithAt(s, j, "${") /\ StartsWithAt(s, k, bash_var) /\ Ch(s, e) = "}"
        THEN e ELSE 0

\* Where a match of r'\$VAR\b' that starts at j ends (0: no match at j).
BareEnd(s, j, bash_var) ==
    LET e == j + Len(bash_var)
    IN  IF StartsWithAt(s, j, "$" \o bash_var) /\ ~IsWord(Ch(s, e + 1))
        THEN e ELSE 0

\* re.sub(r'\$\{\s*VAR\s*\}', repl, s) on s from position i on.
RECURSIVE SubBraced(_, _, _, _)
SubBraced(s, i, bash_var, repl) ==
    LET S == {j \in i..Len(s) : BracedEnd(s, j, bash_var) # 0}
    IN  IF S = {} THEN Sub(s, i, Len(s))
        ELSE LET j == MinOf(S)
             IN  Sub(s, i, j - 1) \o repl
                     \o SubBraced(s, BracedEnd(s, j, bash_var) + 1, bash_var, repl)

\* re.sub(r'\$VAR\b', repl, s) on s from position i on.
RECURSIVE SubBare(_, _, _, _)
SubBare(s, i, bash_var, repl) ==
    LET S == {j \in i..Len(s) : BareEnd(s, j, bash_var) # 0}
    IN  IF S = {} THEN Sub(s, i, Len(s))
        ELSE LET j == MinOf(S)
             IN  Sub(s, i, j - 1) \o repl
                     \o SubBare(s, BareEnd(s, j, bash_var) + 1, bash_var, repl)

\* The loop over replacements.items(), from pair n on.
RECURSIVE ReplaceVars(_, _)
ReplaceVars(s, n) ==
    IF n > Len(replacements) THEN s
    ELSE LET bash_var == replacements[n][1]
             zsh_var == replacements[n][2]
             braced == SubBraced(s, 1, bash_var, BracedReplacement(zsh_var))
         IN  ReplaceVars(SubBare(braced, 1, bash_var, zsh_var), n + 1)

bash_only_builtins == <<"shopt", "complete", "compgen">>

\* re.match(rf'^\s*{builtin}\s', stripped) for some builtin of the list.
IsBashOnly(stripped) ==
    \E n \in 1..Len(bash_only_builtins) :
        /\ StartsWith(stripped, bash_only_builtins[n])
        /\ IsSpace(Ch(stripped, Len(bash_only_builtins[n]) + 1))

\* One pass of the loop body of transform_to_zsh: the lines appended to
\* transformed_lines for one line of the entry.
TransformLine(line) ==
    LET stripped == Strip(line)
    IN  IF stripped = "" THEN <<line>>
        ELSE IF shopt_match(line) THEN ShoptLines(line)
        ELSE IF prompt_cmd_match(line) THEN <<PromptLine(line)>>
        ELSE IF complete_match(line) THEN <<CompleteLine(line)>>
        ELSE IF IsBashOnly(stripped)
        THEN <<Spaces(Indent(line)) \o "# [bash-only] " \o stripped>>
        ELSE <<ReplaceVars(line, 1)>>

RECURSIVE TransformLines(_)
TransformLines(lines) ==
    IF lines = <<>> THEN <<>>
    ELSE TransformLine(Head(lines)) \o TransformLines(Tail(lines))

transform_to_zsh(entry) == JoinNL(TransformLines(SplitNL(entry)))

(***************************************************************************)
(* find_new_entries, backup_zshrc, the text merge_configs appends and the  *)
(* text remove_merged_section keeps                                        *)
(***************************************************************************)

\* find_new_entries without the lookup in .zshrc.
find_new_entries_all(bashrc_file, zshrc_file) ==
    extract_config_entries(bashrc_file)

\* The entries of .bashrc whose key is non-empty and not a key of .zshrc.
find_new_entries(bashrc_file, zshrc_file) ==
    LET zshrc_normalized == get_existing_configs(zshrc_file)
        IsNew(entry) ==
            LET normalized == normalize_line(entry)
            IN  normalized # "" /\ normalized \notin zshrc_normalized
    IN  SelectSeq(extract_config_entries(bashrc_file), IsNew)

\* [transform_to_zsh(entry) for entry in new_entries]
TransformAll(new_entries) ==
    [k \in 1..Len(new_entries) |-> transform_to_zsh(new_entries[k])]

Digit(d) == SubSeq("0123456789", d + 1, d + 1)

\* datetime.now().strftime('%Y%m%d_%H%M%S'), t seconds into a minute of one day
Stamp(t) == "20240101_1200" \o Digit(t \div 10) \o Digit(t % 10)

\* f'.zshrc.backup.{timestamp}'
BackupName(t) == ".zshrc.backup." \o Stamp(t)

\* backup_zshrc with the copy left out.
backup_zshrc_skipped(dir, zshrc_file, t) == dir

\* shutil.copy2(zshrc_path, backup_path): the directory's backup files after
\* the copy; an existing file of that name is overwritten.
backup_zshrc(dir, zshrc_file, t) ==
    [n \in DOMAIN dir \cup {BackupName(t)} |->
        IF n = BackupName(t) THEN zshrc_file.content ELSE dir[n]]

\* The touch without the dry-run test.
TouchZshrc_always(zshrc_file, dry_run) ==
    IF ~zshrc_file.exists THEN [exists |-> TRUE, content |-> ""] ELSE zshrc_file

\* The touch as an open(..., 'w'), which empties a file that exists.
TouchZshrc_truncates(zshrc_file, dry_run) ==
    IF ~dry_run THEN [exists |-> TRUE, content |-> ""] ELSE zshrc_file

\* self.zshrc_path.touch() when .zshrc is missing and this is no dry run
TouchZshrc(zshrc_file, dry_run) ==
    IF ~zshrc_file.exists /\ ~dry_run
    THEN [exists |-> TRUE, content |-> ""]
    ELSE zshrc_file

\* merge_configs without its test of the source file.
SourceMissing_unchecked(bashrc_file) == FALSE

\* not self.bashrc_path.exists(), the test that raises FileNotFoundError
SourceMissing(bashrc_file) == ~bashrc_file.exists

\* remove_merged_section without its test for marker_start.
HasMergedSection_existsOnly(zshrc_file) == zshrc_file.exists

\* The two tests of remove_merged_section that return False when they fail:
\* .zshrc exists, and marker_start is in its content.
HasMergedSection(zshrc_file) ==
    zshrc_file.exists /\ Contains(zshrc_file.content, marker_start)

\* f.write(f'\n{self.marker_start}\n')
StartText == "\n" \o marker_start \o "\n"

EntryText_raw(transformed) == transformed

\* The text written for one transformed entry: newline-terminated.
EntryText(transformed) ==
    IF EndsWith(transformed, "\n") THEN transformed ELSE transformed \o "\n"

\* f.write(f'{self.marker_end}\n')
EndText == marker_end \o "\n"

\* Where the first match of marker_start.*?marker_end\n? at or after i starts
\* (0: none), and where it ends.
SpanStart(content, i) ==
    LET s == Find(content, marker_start, i)
    IN  IF s # 0 /\ Find(content, marker_end, s + Len(marker_start)) # 0
        THEN s ELSE 0

SpanEnd(content, s) ==
    LET e == Find(content, marker_end, s + Len(marker_start)) + Len(marker_end) - 1
    IN  IF Ch(content, e + 1) = "\n" THEN e + 1 ELSE e

\* re.sub(..., count=1): only the first match is deleted.
RemoveSpans_first(content, i) ==
    LET s == SpanStart(content, i)
    IN  IF s = 0 THEN Sub(content, i, Len(content))
        ELSE Sub(content, i, s - 1)
                 \o Sub(content, SpanEnd(content, s) + 1, Len(content))

\* re.sub(pattern, '', content, flags=re.DOTALL) on content from position i on:
\* every non-overlapping match is deleted.
RECURSIVE RemoveSpans(_, _)
RemoveSpans(content, i) ==
    LET s == SpanStart(content, i)
    IN  IF s = 0 THEN Sub(content, i, Len(content))
        ELSE Sub(content, i, s - 1) \o RemoveSpans(content, SpanEnd(content, s) + 1)

(***************************************************************************)
(* The state: the files ConfigMerger works on, and the position of one     *)
(* call of merge_configs or remove_merged_section                          *)
(***************************************************************************)

\* The number of calls of one run, and the seconds the clock can advance.
MaxOps == 2

MaxClock == 1

VARIABLES
    bashrc,     \* the file at bashrc_path: [exists, content]
    zshrc,      \* the file at zshrc_path: [exists, content]
    backups,    \* the backup files beside .zshrc: file name -> content
    now,        \* the clock datetime.now() reads, in seconds
    pc,         \* where the call in progress stands ("idle": none)
    transformed_entries,   \* merge_configs: the entries left to write
    content,    \* remove_merged_section: the text read from .zshrc
    calls,      \* the calls made so far, each with the files as it found them
    zshrc_name, \* the file name of zshrc_path, as passed to ConfigMerger
    entry,      \* the text handed to transform_to_zsh
    result,     \* what the function applied last returned
    fn,         \* the function applied last to the files or to entry ("none")
    file_path,  \* safe_write_file: the file to write: [exists, content]
    temp_path,  \* safe_write_file: the temporary file beside it
    backup_dir, \* TmuxSessionManager: the backup files: file name -> content
    archive_dir,     \* the files of config archive_dir: file name -> content
    keep_last_n,     \* config keep_last_n
    archive_deleted  \* config archive_deleted

vars == <<bashrc, zshrc, backups, now, pc, transformed_entries, content, calls,
          zshrc_name, entry, result, fn, file_path, temp_path, backup_dir,
          archive_dir, keep_last_n, archive_deleted>>

\* What safe_write_file writes.
written == <<file_path, temp_path>>

\* What TmuxSessionManager works on.
sessions == <<backup_dir, archive_dir, keep_last_n, archive_deleted>>

\* What merge_configs and remove_merged_section work on.
merger == <<bashrc, zshrc, backups, now, pc, transformed_entries, content, calls>>

\* What a call of one of the pure methods works on.
scratch == <<entry, result, fn>>

Absent == [exists |-> FALSE, content |-> ""]

File(text) == [exists |-> TRUE, content |-> text]

\* safe_write_file has not been called: no file, no temporary file.
NothingWritten ==
    /\ file_path = Absent
    /\ temp_path = Absent

\* The DEFAULT_CONFIG of the session manager and empty directories.
NoSessions ==
    /\ backup_dir = [n \in {} |-> ""]
    /\ archive_dir = [n \in {} |-> ""]
    /\ keep_last_n = 10
    /\ archive_deleted = TRUE

\* The .bashrc files a run starts from.
Sources ==
    { Absent,
      File("# only a comment\n"),
      File("export A=1\nalias g=git # c\n"),
      File("shopt -s histappend\n"),
      File("alias g=git # c\nexport C=3") }

\* The .zshrc files a run starts from.
Dests ==
    { Absent,
      File("# zsh\n"),
      File("alias g=git\nexport A=1"),
      File("export B=2\n" \o marker_start \o "\nexport X=1\n"),
      File("# zsh\n\n" \o marker_start \o "\nexport A=1\nalias g=git # c\n"
               \o marker_end \o "\n") }

Init ==
    /\ bashrc \in Sources
    /\ zshrc \in Dests
    /\ backups = [n \in {} |-> ""]
    /\ now = 0
    /\ pc = "idle"
    /\ transformed_entries = <<>>
    /\ content = ""
    /\ calls = <<>>
    /\ zshrc_name = ".zshrc"
    /\ entry = ""
    /\ result = ""
    /\ fn = "none"
    /\ NothingWritten
    /\ NoSessions

\* The record of a call: what was called, how it ended, and the files before it.
Call(op, dry_run, status, count, removed) ==
    [op |-> op, dry_run |-> dry_run, status |-> status, count |-> count,
     removed |-> removed, pre_bashrc |-> bashrc, pre_zshrc |-> zshrc,
     pre_backups |-> backups]

\* The last call ends with the given status and results.
Finish(status, count, removed) ==
    [calls EXCEPT ![Len(calls)] =
        [@ EXCEPT !.status = status, !.count = count, !.removed = removed]]

\* merge_configs up to the backup: the source check, the touch, the search
\* for new entries, their transformation, and the returns that write nothing.
MergeCall(dry_run) ==
    /\ UNCHANGED <<zshrc_name, scratch, written, sessions>>
    /\ pc = "idle"
    /\ Len(calls) < MaxOps
    /\ UNCHANGED <<bashrc, backups, now, content>>
    /\ IF SourceMissing(bashrc)
       THEN /\ calls' = Append(calls, Call("merge", dry_run, "raised", 0, FALSE))
            /\ UNCHANGED <<zshrc, pc, transformed_entries>>
       ELSE LET touched == TouchZshrc(zshrc, dry_run)
                new_entries == find_new_entries(bashrc, touched)
            IN  /\ zshrc' = touched
                /\ IF new_entries = <<>> \/ dry_run
                   THEN /\ calls' = Append(calls,
                               Call("merge", dry_run, "returned", Len(new_entries), FALSE))
                        /\ UNCHANGED <<pc, transformed_entries>>
                   ELSE /\ calls' = Append(calls,
                               Call("merge", dry_run, "running", Len(new_entries), FALSE))
                        /\ transformed_entries' = TransformAll(new_entries)
                        /\ pc' = "merge_backup"

\* backup_path = self.backup_zshrc()
MergeBackup ==
    /\ UNCHANGED <<zshrc_name, scratch, written, sessions>>
    /\ pc = "merge_backup"
    /\ backups' = backup_zshrc(backups, zshrc, now)
    /\ pc' = "merge_start"
    /\ UNCHANGED <<bashrc, zshrc, now, transformed_entries, content, calls>>

\* open(zshrc_path, 'a') and the write of the start marker
MergeWriteStart ==
    /\ UNCHANGED <<zshrc_name, scratch, written, sessions>>
    /\ pc = "merge_start"
    /\ zshrc' = File(zshrc.content \o StartText)
    /\ pc' = "merge_entries"
    /\ UNCHANGED <<bashrc, backups, now, transformed_entries, content, calls>>

\* One pass of the loop over transformed_entries.
MergeWriteEntry ==
    /\ UNCHANGED <<zshrc_name, scratch, written, sessions>>
    /\ pc = "merge_entries"
    /\ transformed_entries # <<>>
    /\ zshrc' = File(zshrc.content \o EntryText(Head(transformed_entries)))
    /\ transformed_entries' = Tail(transformed_entries)
    /\ UNCHANGED <<bashrc, backups, now, pc, content, calls>>

\* The write of the end marker, the close and the return.
MergeWriteEnd ==
    /\ UNCHANGED <<zshrc_name, scratch, written, sessions>>
    /\ pc = "merge_entries"
    /\ transformed_entries = <<>>
    /\ zshrc' = File(zshrc.content \o EndText)
    /\ pc' = "idle"
    /\ calls' = Finish("returned", calls[Len(calls)].count, FALSE)
    /\ UNCHANGED <<bashrc, backups, now, transformed_entries, content>>

\* remove_merged_section up to the backup: the checks and the dry-run return.
RemoveCall(dry_run) ==
    /\ UNCHANGED <<zshrc_name, scratch, written, sessions>>
    /\ pc = "idle"
    /\ Len(calls) < MaxOps
    /\ UNCHANGED <<bashrc, zshrc, backups, now, transformed_entries>>
    /\ IF ~HasMergedSection(zshrc)
       THEN /\ calls' = Append(calls, Call("remove", dry_run, "returned", 0, FALSE))
            /\ UNCHANGED <<pc, content>>
       ELSE IF dry_run
       THEN /\ calls' = Append(calls, Call("remove", dry_run, "returned", 0, TRUE))
            /\ UNCHANGED <<pc, content>>
       ELSE /\ calls' = Append(calls, Call("remove", dry_run, "running", 0, FALSE))
            /\ content' = zshrc.content
            /\ pc' = "remove_backup"

\* backup_path = self.backup_zshrc()
RemoveBackup ==
    /\ UNCHANGED <<zshrc_name, scratch, written, sessions>>
    /\ pc = "remove_backup"
    /\ backups' = backup_zshrc(backups, zshrc, now)
    /\ pc' = "remove_open"
    /\ UNCHANGED <<bashrc, zshrc, now, transformed_entries, content, calls>>

\* open(zshrc_path, 'w') truncates the file.
RemoveOpen ==
    /\ UNCHANGED <<zshrc_name, scratch, written, sessions>>
    /\ pc = "remove_open"
    /\ zshrc' = File("")
    /\ pc' = "remove_write"
    /\ UNCHANGED <<bashrc, backups, now, transformed_entries, content, calls>>

\* f.write(new_content), the close and the return.
RemoveWrite ==
    /\ UNCHANGED <<zshrc_name, scratch, written, sessions>>
    /\ pc = "remove_write"
    /\ zshrc' = File(RemoveSpans(content, 1))
    /\ pc' = "idle"
    /\ content' = ""
    /\ calls' = Finish("returned", 0, TRUE)
    /\ UNCHANGED <<bashrc, backups, now, transformed_entries>>

\* The process dies, or an I/O error is raised, between two steps of a call:
\* the files stay as they are.
Crash ==
    /\ UNCHANGED <<zshrc_name, scratch, written, sessions>>
    /\ pc # "idle"
    /\ pc' = "idle"
    /\ transformed_entries' = <<>>
    /\ content' = ""
    /\ calls' = Finish("crashed", calls[Len(calls)].count, FALSE)
    /\ UNCHANGED <<bashrc, zshrc, backups, now>>

\* A second passes between two calls.
Tick ==
    /\ UNCHANGED <<zshrc_name, scratch, written, sessions>>
    /\ pc = "idle"
    /\ now < MaxClock
    /\ now' = now + 1
    /\ UNCHANGED <<bashrc, zshrc, backups, pc, transformed_entries, content, calls>>

Next ==
    \/ \E dry_run \in BOOLEAN : MergeCall(dry_run)
    \/ MergeBackup
    \/ MergeWriteStart
    \/ MergeWriteEntry
    \/ MergeWriteEnd
    \/ \E dry_run \in BOOLEAN : RemoveCall(dry_run)
    \/ RemoveBackup
    \/ RemoveOpen
    \/ RemoveWrite
    \/ Crash
    \/ Tick

Spec == Init /\ [][Next]_vars

\* The file names --zshrc may give the destination (default: .zshrc).
DestNames == {".zshrc", "zshrc.local"}

\* ConfigMerger(bashrc_path, zshrc_path, dry_run) with a zshrc_path of any name.
InitNamed ==
    /\ bashrc \in Sources
    /\ zshrc \in Dests
    /\ backups = [n \in {} |-> ""]
    /\ now = 0
    /\ pc = "idle"
    /\ transformed_entries = <<>>
    /\ content = ""
    /\ calls = <<>>
    /\ zshrc_name \in DestNames
    /\ entry = ""
    /\ result = ""
    /\ fn = "none"
    /\ NothingWritten
    /\ NoSessions

SpecNamed == InitNamed /\ [][Next]_vars

(***************************************************************************)
(* extract_config_entries and find_new_entries applied to files of any     *)
(* lines: .bashrc is written line by line, then a method is called.        *)
(***************************************************************************)
MaxLines == 3

\* The physical lines a .bashrc is made of.
EditLines ==
    { "export A=1\n",
      "  export A=1  # my editor\n",
      "# note\n",
      "x=1 \\\n",
      "f() {\n",
      "  g() {\n",
      "  echo hi\n",
      "}\n" }

\* The .zshrc files the new entries are looked up in.
ExtractDests ==
    { Absent,
      File("export A=1 # set\nf() {\n  echo bye\n}\n"),
      File("f() {\n  echo hi\n}\n") }

InitExtract ==
    /\ bashrc = File("")
    /\ zshrc \in ExtractDests
    /\ backups = [n \in {} |-> ""]
    /\ now = 0
    /\ pc = "idle"
    /\ transformed_entries = <<>>
    /\ content = ""
    /\ calls = <<>>
    /\ zshrc_name = ".zshrc"
    /\ entry = ""
    /\ result = ""
    /\ fn = "none"
    /\ NothingWritten
    /\ NoSessions

\* The user adds a line to .bashrc; what a method returned before is stale.
AppendLine(line) ==
    /\ Len(ReadLines(bashrc.content)) < MaxLines
    /\ bashrc' = File(bashrc.content \o line)
    /\ result' = ""
    /\ fn' = "none"
    /\ UNCHANGED <<zshrc, backups, now, pc, transformed_entries, content, calls,
                   zshrc_name, entry, written, sessions>>

\* self.extract_config_entries(self.bashrc_path)
Extract ==
    /\ result' = extract_config_entries(bashrc)
    /\ fn' = "extract_config_entries"
    /\ UNCHANGED <<merger, zshrc_name, entry, written, sessions>>

\* self.find_new_entries()
FindNew ==
    /\ result' = find_new_entries(bashrc, zshrc)
    /\ fn' = "find_new_entries"
    /\ UNCHANGED <<merger, zshrc_name, entry, written, sessions>>

NextExtract ==
    \/ \E line \in EditLines : AppendLine(line)
    \/ Extract
    \/ FindNew

SpecExtract == InitExtract /\ [][NextExtract]_vars

\* The lines of a .bashrc with sourcing guards and one-line functions.
GuardLines ==
    { "if [ -f ~/.bash_aliases ]; then\n",
      "    . ~/.bash_aliases\n",
      "fi\n",
      "f() { echo hi; }\n",
      "export A=1\n",
      "}\n" }

NextGuards ==
    \/ \E line \in GuardLines : AppendLine(line)
    \/ Extract

SpecGuards == InitExtract /\ [][NextGuards]_vars

(***************************************************************************)
(* transform_to_zsh applied to entries of any lines.                       *)
(***************************************************************************)
MaxEntryLines == 2

\* The lines an entry handed to transform_to_zsh is made of.
SampleLines ==
    { "",
      "export A=1",
      "shopt -s histappend",
      "shopt -u cdspell nocaseglob",
      "shopt -s extglob dotglob nullglob globstar",
      "PROMPT_COMMAND='echo test'",
      "PROMPT_COMMAND=\"history -a; $PROMPT_COMMAND\"",
      "PROMPT_COMMAND='echo \"pid\" $BASHPID'",
      "complete -F _git git",
      "compgen -v ${BASHPID}",
      "  compgen -W 'a b' -- $x",
      "compgen",
      "\tshopt -s dotglob",
      "# pid $BASHPID",
      "echo $BASHPID ${BASHPID}",
      "echo $BASHPIDS",
      "v=$BASH_VERSION",
      "v=${BASH_VERSION}",
      "[[ $BASH_REMATCH ]]",
      "m=${BASH_REMATCH}",
      "d=\"${BASH_SOURCE[0]}\"",
      "d=$BASH_SOURCE",
      "d=${BASH_SOURCE}" }

InitTransform ==
    /\ bashrc = Absent
    /\ zshrc = Absent
    /\ backups = [n \in {} |-> ""]
    /\ now = 0
    /\ pc = "idle"
    /\ transformed_entries = <<>>
    /\ content = ""
    /\ calls = <<>>
    /\ zshrc_name = ".zshrc"
    /\ entry \in SampleLines
    /\ result = ""
    /\ fn = "none"
    /\ NothingWritten
    /\ NoSessions

\* The entry gets one more line; what transform_to_zsh returned is stale.
AddLine(line) ==
    /\ Len(SplitNL(entry)) < MaxEntryLines
    /\ entry' = entry \o "\n" \o line
    /\ result' = ""
    /\ fn' = "none"
    /\ UNCHANGED <<merger, zshrc_name, written, sessions>>

\* self.transform_to_zsh(entry)
Transform ==
    /\ result' = transform_to_zsh(entry)
    /\ fn' = "transform_to_zsh"
    /\ UNCHANGED <<merger, zshrc_name, entry, written, sessions>>

NextTransform ==
    \/ \E line \in SampleLines : AddLine(line)
    \/ Transform

SpecTransform == InitTransform /\ [][NextTransform]_vars

(***************************************************************************)
(* utils/file_utils.py: safe_write_file(file_path, content, backup), step  *)
(* by step, with the failures open, write and replace can raise.           *)
(***************************************************************************)
MaxWrites == 2

\* The file safe_write_file finds at file_path (named test.txt).
Targets == {Absent, File("old\n")}

\* The content argument; \udce9 stands for a lone surrogate, which str can
\* hold and UTF-8 cannot encode.
Contents == {"", "new\n", "caf\\udce9\n"}

\* Whether f.write(content) can encode content as UTF-8.
Utf8Encodable(text) == ~Contains(text, "\\udc")

InitWrite ==
    /\ bashrc = Absent
    /\ zshrc = Absent
    /\ backups = [n \in {} |-> ""]
    /\ now = 0
    /\ pc = "idle"
    /\ transformed_entries = <<>>
    /\ content = ""
    /\ calls = <<>>
    /\ zshrc_name = ".zshrc"
    /\ entry = ""
    /\ result = ""
    /\ fn = "none"
    /\ file_path \in Targets
    /\ temp_path = Absent
    /\ NoSessions

\* What stays as it is while safe_write_file runs.
WriteFrame ==
    UNCHANGED <<bashrc, zshrc, now, transformed_entries, zshrc_name, entry,
                result, sessions>>

\* The call ends: it returns, or raises error out of the step failed.
WriteEnds(status, error, failed) ==
    /\ pc' = "idle"
    /\ calls' = [calls EXCEPT ![Len(calls)] =
                     [@ EXCEPT !.status = status, !.error = error, !.failed = failed]]

\* safe_write_file(file_path, content, backup) is called.
SafeWriteCall(text, backup) ==
    /\ pc = "idle"
    /\ Len(calls) < MaxWrites
    /\ content' = text
    /\ fn' = "safe_write_file"
    /\ calls' = Append(calls, [op |-> "safe_write_file", content |-> text,
                               backup |-> backup, status |-> "running",
                               error |-> "", failed |-> "",
                               pre_file |-> file_path, pre_temp |-> temp_path])
    /\ pc' = "write_backup"
    /\ UNCHANGED <<written, backups>>
    /\ WriteFrame

\* if backup and file_path.exists(): backup_file(file_path); then
\* ensure_directory(file_path.parent). Either can raise OSError.
WriteBackup ==
    /\ pc = "write_backup"
    /\ \/ /\ calls[Len(calls)].backup /\ file_path.exists
          /\ backups' = [n \in DOMAIN backups \cup {"test.txt.backup." \o Stamp(now)} |->
                             IF n = "test.txt.backup." \o Stamp(now)
                             THEN file_path.content ELSE backups[n]]
          /\ pc' = "write_open"
          /\ UNCHANGED calls
       \/ /\ ~(calls[Len(calls)].backup /\ file_path.exists)
          /\ pc' = "write_open"
          /\ UNCHANGED <<backups, calls>>
       \/ /\ WriteEnds("raised", "OSError", "backup")
          /\ UNCHANGED backups
    /\ UNCHANGED <<written, content, fn>>
    /\ WriteFrame

\* open(temp_path, "w", encoding="utf-8"): the temporary file is created or
\* truncated, or open raises OSError.
WriteOpen ==
    /\ pc = "write_open"
    /\ \/ /\ temp_path' = File("")
          /\ pc' = "write_text"
       \/ /\ pc' = "write_except"
          /\ UNCHANGED temp_path
    /\ UNCHANGED <<file_path, backups, content, calls, fn>>
    /\ WriteFrame

\* f.write(content) and the close of the with block: the text is written;
\* or it cannot be encoded and UnicodeEncodeError, which is no OSError,
\* leaves the function; or OSError is raised with part of the text written.
WriteText ==
    /\ pc = "write_text"
    /\ \/ /\ Utf8Encodable(content)
          /\ temp_path' = File(content)
          /\ pc' = "write_replace"
          /\ UNCHANGED calls
       \/ /\ ~Utf8Encodable(content)
          /\ WriteEnds("raised", "UnicodeEncodeError", "write")
          /\ UNCHANGED temp_path
       \/ /\ Utf8Encodable(content)
          /\ \E k \in 0..(Len(content) - 1) : temp_path' = File(Sub(content, 1, k))
          /\ pc' = "write_except"
          /\ UNCHANGED calls
    /\ UNCHANGED <<file_path, backups, content, fn>>
    /\ WriteFrame

\* temp_path.replace(file_path): the atomic rename, or OSError.
WriteReplace ==
    /\ pc = "write_replace"
    /\ \/ /\ file_path' = temp_path
          /\ temp_path' = Absent
          /\ WriteEnds("returned", "", "")
       \/ /\ pc' = "write_except"
          /\ UNCHANGED <<written, calls>>
    /\ UNCHANGED <<backups, content, fn>>
    /\ WriteFrame

\* except (IOError, OSError): unlink temp_path if it exists, and raise.
WriteExcept ==
    /\ pc = "write_except"
    /\ temp_path' = Absent
    /\ WriteEnds("raised", "OSError", "write")
    /\ UNCHANGED <<file_path, backups, content, fn>>
    /\ WriteFrame

NextWrite ==
    \/ \E text \in Contents, backup \in BOOLEAN : SafeWriteCall(text, backup)
    \/ WriteBackup
    \/ WriteOpen
    \/ WriteText
    \/ WriteReplace
    \/ WriteExcept

SpecWrite == InitWrite /\ [][NextWrite]_vars

(***************************************************************************)
(* scripts/tmux-session-manager.py: TmuxSessionManager.cleanup on a backup *)
(* directory that tmux-resurrect keeps writing snapshots to.               *)
(***************************************************************************)
MaxFiles == 3

MaxKeep == 2

\* The names snapshots are saved under; the last one holds no timestamp.
BackupNames ==
    { "tmux_resurrect_20251106T125801.txt",
      "tmux_resurrect_20251106T125802.txt",
      "tmux_resurrect_20251106T125803.txt",
      "tmux_resurrect_last.txt" }

\* What a snapshot file holds.
SnapshotTexts == {"state main\n", "pane work 0\nstate work\n", "pane main 0\n"}

IsDigit(c) == c \in {"0", "1", "2", "3", "4", "5", "6", "7", "8", "9"}

\* int() of a string of digits.
RECURSIVE ToInt(_)
ToInt(digits) ==
    IF digits = "" THEN 0
    ELSE 10 * ToInt(Sub(digits, 1, Len(digits) - 1))
             + (CHOOSE d \in 0..9 : Digit(d) = Ch(digits, Len(digits)))

\* Whether r'\d{8}T\d{6}' matches at position j of filename.
TimestampAt(filename, j) ==
    /\ \A k \in j..(j + 7) : IsDigit(Ch(filename, k))
    /\ Ch(filename, j + 8) = "T"
    /\ \A k \in (j + 9)..(j + 14) : IsDigit(Ch(filename, k))

\* parse_timestamp_from_filename: the time of the first match, as the
\* number HHMMSS within the one day the names are of; datetime.min is -1.
parse_timestamp_from_filename(filename) ==
    LET S == {j \in 1..Len(filename) : TimestampAt(filename, j)}
    IN  IF S = {} THEN -1
        ELSE ToInt(Sub(filename, MinOf(S) + 9, MinOf(S) + 14))

\* get_session_from_file: parts[1] of the first line that starts with
\* 'state' and has two parts; "unknown" without such a line.
RECURSIVE SessionOfLines(_)
SessionOfLines(lines) ==
    IF lines = <<>> THEN "unknown"
    ELSE IF StartsWith(Head(lines), "state") /\ Len(SplitWS(Head(lines))) >= 2
         THEN SplitWS(Head(lines))[2]
         ELSE SessionOfLines(Tail(lines))

get_session_from_file(text) == SessionOfLines(ReadLines(text))

\* sessions[session].sort(key=lambda x: x[1]): the files, oldest first.
RECURSIVE SortByTimestamp(_)
SortByTimestamp(files) ==
    IF files = {} THEN <<>>
    ELSE LET oldest == CHOOSE f \in files : \A g \in files :
                 parse_timestamp_from_filename(f) <= parse_timestamp_from_filename(g)
         IN  <<oldest>> \o SortByTimestamp(files \ {oldest})

\* analyze_backups()[session]
analyze_backups(dir, session) ==
    SortByTimestamp({n \in DOMAIN dir : get_session_from_file(dir[n]) = session})

\* seq[:stop] of Python, for any integer stop.
SliceTo(seq, stop) ==
    LET end == IF stop < 0 THEN (IF Len(seq) + stop < 0 THEN 0 ELSE Len(seq) + stop)
               ELSE (IF stop > Len(seq) THEN Len(seq) ELSE stop)
    IN  SubSeq(seq, 1, end)

\* backups[:-self.keep_last_n]
FilesToDelete(session_backups, n) == SliceTo(session_backups, 0 - n)

\* cleanup_preview(): the names of the files to delete, of all sessions.
cleanup_preview(dir, n) ==
    LET names == {get_session_from_file(dir[f]) : f \in DOMAIN dir}
        Doomed(session) ==
            LET b == analyze_backups(dir, session)
            IN  IF Len(b) > n
                THEN {FilesToDelete(b, n)[i] : i \in 1..Len(FilesToDelete(b, n))}
                ELSE {}
    IN  UNION {Doomed(session) : session \in names}

InitCleanup ==
    /\ bashrc = Absent
    /\ zshrc = Absent
    /\ backups = [n \in {} |-> ""]
    /\ now = 0
    /\ pc = "idle"
    /\ transformed_entries = <<>>
    /\ content = ""
    /\ calls = <<>>
    /\ zshrc_name = ".zshrc"
    /\ entry = ""
    /\ result = ""
    /\ fn = "none"
    /\ NothingWritten
    /\ backup_dir = [n \in {} |-> ""]
    /\ archive_dir = [n \in {} |-> ""]
    /\ keep_last_n \in 0..MaxKeep
    /\ archive_deleted \in BOOLEAN

\* tmux-resurrect saves a snapshot into backup_dir, before the manager runs.
SaveSnapshot(name, text) ==
    /\ calls = <<>>
    /\ name \notin DOMAIN backup_dir
    /\ Cardinality(DOMAIN backup_dir) < MaxFiles
    /\ backup_dir' = [n \in DOMAIN backup_dir \cup {name} |->
                          IF n = name THEN text ELSE backup_dir[n]]
    /\ fn' = "none"
    /\ UNCHANGED <<merger, zshrc_name, entry, result, written, archive_dir,
                   keep_last_n, archive_deleted>>

\* cleanup(dry_run): nothing to delete or dry_run: nothing changes; else
\* every file of the preview is moved to archive_dir or unlinked. calls
\* keeps the last cleanup only.
Cleanup(dry_run) ==
    LET to_delete == cleanup_preview(backup_dir, keep_last_n)
    IN  /\ calls' = <<[op |-> "cleanup", dry_run |-> dry_run,
                       pre_dir |-> backup_dir, pre_archive |-> archive_dir]>>
        /\ fn' = "cleanup"
        /\ IF to_delete = {} \/ dry_run
           THEN UNCHANGED <<backup_dir, archive_dir>>
           ELSE /\ backup_dir' = [n \in DOMAIN backup_dir \ to_delete |-> backup_dir[n]]
                /\ archive_dir' =
                       IF archive_deleted
                       THEN [n \in DOMAIN archive_dir \cup to_delete |->
                                IF n \in to_delete THEN backup_dir[n] ELSE archive_dir[n]]
                       ELSE archive_dir
        /\ UNCHANGED <<bashrc, zshrc, backups, now, pc, transformed_entries, content,
                       zshrc_name, entry, result, written, keep_last_n, archive_deleted>>

NextCleanup ==
    \/ \E name \in BackupNames, text \in SnapshotTexts : SaveSnapshot(name, text)
    \/ \E dry_run \in BOOLEAN : Cleanup(dry_run)

SpecCleanup == InitCleanup /\ [][NextCleanup]_vars

(***************************************************************************)
(* Properties of merge_configs and remove_merged_section                   *)
(***************************************************************************)

Last == calls[Len(calls)]

Prev == calls[Len(calls) - 1]

\* The last call was a non-dry-run call of op that has returned.
Returned(op) ==
    /\ pc = "idle"
    /\ calls # <<>>
    /\ Last.op = op
    /\ ~Last.dry_run
    /\ Last.status = "returned"

\* The call before the last was a non-dry-run call of op that returned.
PrevReturned(op) ==
    /\ Len(calls) >= 2
    /\ Prev.op = op
    /\ ~Prev.dry_run
    /\ Prev.status = "returned"

\* The text of the block a merge of these files appends.
RECURSIVE EntriesText(_)
EntriesText(entries) ==
    IF entries = <<>> THEN ""
    ELSE EntryText(Head(entries)) \o EntriesText(Tail(entries))

\* The complete content .zshrc is to have once the call c has returned.
PostContent(c) ==
    IF c.op = "remove" THEN RemoveSpans(c.pre_zshrc.content, 1)
    ELSE c.pre_zshrc.content \o StartText
             \o EntriesText(TransformAll(find_new_entries(c.pre_bashrc, c.pre_zshrc)))
             \o EndText

\* C1: a non-dry-run merge that directly follows a non-dry-run merge finds
\* zero new entries and leaves .zshrc as the first merge left it.
C1_MergeIdempotent ==
    (Returned("merge") /\ PrevReturned("merge"))
        => (Last.count = 0 /\ zshrc = Last.pre_zshrc)

\* C2: at every step of a non-dry-run merge or remove, also when the call is
\* cut short, .zshrc holds its complete content of before the call or its
\* complete content of after it.
C2_NeverPartial ==
    (calls # <<>> /\ ~Last.dry_run /\ Last.status \in {"running", "crashed"})
        => zshrc.content \in {Last.pre_zshrc.content, PostContent(Last)}

\* The backup files differ from those before the call c in one file at most,
\* and that file holds what .zshrc held before the call.
OneBackupOf(c) ==
    \E n \in DOMAIN backups :
        /\ backups[n] = c.pre_zshrc.content
        /\ DOMAIN backups = DOMAIN c.pre_backups \cup {n}
        /\ \A m \in DOMAIN c.pre_backups \ {n} : backups[m] = c.pre_backups[m]

\* C3: a non-dry-run merge with at least one new entry writes exactly one
\* backup file, holding the content .zshrc had before the merge, and writes it
\* before it changes .zshrc.
C3_MergeBacksUpFirst ==
    (calls # <<>> /\ Last.op = "merge" /\ ~Last.dry_run /\ Last.count >= 1)
        => /\ OneBackupOf(Last)
              \/ (backups = Last.pre_backups
                     /\ zshrc.content = Last.pre_zshrc.content
                     /\ Last.status # "returned")
           /\ pc = "merge_backup" => backups = Last.pre_backups

C3_Witness ==
    /\ Returned("merge")
    /\ Last.count >= 1
    /\ Last.pre_zshrc.content # ""
    /\ zshrc # Last.pre_zshrc
    /\ Last.pre_backups # backups

\* C4: a dry-run call of merge or remove leaves .bashrc, .zshrc (existence
\* and content) and the backup files as they were, whatever it reports.
C4_DryRunChangesNothing ==
    (calls # <<>> /\ Last.dry_run)
        => /\ pc = "idle"
           /\ bashrc = Last.pre_bashrc
           /\ zshrc = Last.pre_zshrc
           /\ backups = Last.pre_backups

C4_Witness ==
    /\ Len(calls) >= 2
    /\ Prev.op = "merge" /\ Prev.dry_run /\ Prev.count > 0
    /\ Last.op = "remove" /\ Last.dry_run /\ Last.removed
    /\ zshrc = Prev.pre_zshrc

\* C5 as stated: a non-dry-run merge that returns count 0 leaves .zshrc
\* exactly as it was, a missing .zshrc included, and creates no backup.
C5_ZeroCountWritesNothing ==
    (Returned("merge") /\ Last.count = 0)
        => (zshrc = Last.pre_zshrc /\ backups = Last.pre_backups)

\* C5 amended: a non-dry-run merge that returns count 0 creates no backup and
\* leaves a .zshrc that exists exactly as it was; a missing .zshrc is created
\* empty.
C5_ZeroCountKeepsExisting ==
    (Returned("merge") /\ Last.count = 0)
        => /\ backups = Last.pre_backups
           /\ Last.pre_zshrc.exists => zshrc = Last.pre_zshrc
           /\ ~Last.pre_zshrc.exists => zshrc = File("")

C5_Witness ==
    /\ Returned("merge")
    /\ Last.count = 0
    /\ Last.pre_zshrc.exists
    /\ extract_config_entries(Last.pre_bashrc) # <<>>

\* C6: with .bashrc missing, merge raises in dry-run and in non-dry-run mode
\* alike, .zshrc is neither created nor changed and no backup is written.
C6_MissingSourceRaises ==
    (calls # <<>> /\ Last.op = "merge" /\ ~Last.pre_bashrc.exists)
        => /\ Last.status = "raised"
           /\ pc = "idle"
           /\ zshrc = Last.pre_zshrc
           /\ backups = Last.pre_backups

C6_Witness ==
    /\ Len(calls) >= 2
    /\ Prev.op = "merge" /\ Prev.dry_run /\ Prev.status = "raised"
    /\ Last.op = "merge" /\ ~Last.dry_run /\ Last.status = "raised"
    /\ ~zshrc.exists

\* The text has a second marker_start...marker_end span after its first.
HasTwoSpans(text) ==
    /\ SpanStart(text, 1) # 0
    /\ SpanStart(text, SpanEnd(text, SpanStart(text, 1)) + 1) # 0

\* C7 as stated: on a .zshrc with two or more spans a non-dry-run remove
\* deletes the first span only, and the later spans stay in the file.
C7_RemoveDeletesFirstSpanOnly ==
    (Returned("remove") /\ Last.removed /\ HasTwoSpans(Last.pre_zshrc.content))
        => /\ zshrc.content = RemoveSpans_first(Last.pre_zshrc.content, 1)
           /\ SpanStart(zshrc.content, 1) # 0

\* C7 amended: a non-dry-run remove deletes every span from a start marker
\* line to the next end marker line, not only the first: no such span is left
\* in the file, and the text before the first span is kept.
C7_RemoveDeletesEverySpan ==
    (Returned("remove") /\ Last.removed)
        => /\ SpanStart(zshrc.content, 1) = 0
           /\ SpanStart(Last.pre_zshrc.content, 1) # 0
                 => StartsWith(zshrc.content,
                        Sub(Last.pre_zshrc.content, 1,
                            SpanStart(Last.pre_zshrc.content, 1) - 1))

C7_Witness ==
    /\ Returned("remove")
    /\ Last.removed
    /\ HasTwoSpans(Last.pre_zshrc.content)
    /\ PrevReturned("merge")
    /\ Prev.count >= 1

\* C8: after a non-dry-run remove that returned true, .zshrc contains neither
\* marker_start nor marker_end.
C8_RemoveLeavesNoMarker ==
    (Returned("remove") /\ Last.removed)
        => /\ ~Contains(zshrc.content, marker_start)
           /\ ~Contains(zshrc.content, marker_end)

\* C9: when .zshrc is missing or holds no marker_start, remove returns false,
\* writes no backup and leaves .zshrc untouched.
C9_NothingToRemove ==
    (calls # <<>> /\ Last.op = "remove"
         /\ (~Last.pre_zshrc.exists \/ ~Contains(Last.pre_zshrc.content, marker_start)))
        => /\ pc = "idle"
           /\ Last.status = "returned"
           /\ ~Last.removed
           /\ zshrc = Last.pre_zshrc
           /\ backups = Last.pre_backups

C9_Witness ==
    /\ Returned("remove")
    /\ ~Last.removed
    /\ Last.pre_zshrc.exists
    /\ Last.pre_zshrc.content # ""
    /\ zshrc = Last.pre_zshrc

\* C10: a non-dry-run merge that appends a block to a .zshrc without marker
\* lines, followed by a non-dry-run remove, restores the content .zshrc had
\* before the merge.
C10_RemoveInvertsMerge ==
    (/\ Returned("remove")
     /\ PrevReturned("merge")
     /\ Prev.count >= 1
     /\ ~Contains(Prev.pre_zshrc.content, marker_start)
     /\ ~Contains(Prev.pre_zshrc.content, marker_end))
        => zshrc.content = Prev.pre_zshrc.content

\* C11: a non-dry-run merge with new entries only appends: the previous
\* content of .zshrc is a prefix of the new content, and the appended text is
\* a blank line, the start marker line, every transformed new entry in the
\* order of .bashrc, each ending in a newline, and the end marker line last.
C11_MergeAppendsBlock ==
    (Returned("merge") /\ Last.count > 0)
        => LET old == Last.pre_zshrc.content
               new == find_new_entries(Last.pre_bashrc, Last.pre_zshrc)
               added == Sub(zshrc.content, Len(old) + 1, Len(zshrc.content))
               lines == ReadLines(added)
               n == Len(lines)
               Terminated(t) == IF EndsWith(t, "\n") THEN t ELSE t \o "\n"
               Want[k \in 0..Len(new)] ==
                   IF k = 0 THEN ""
                   ELSE Want[k - 1] \o Terminated(transform_to_zsh(new[k]))
           IN  /\ StartsWith(zshrc.content, old)
               /\ Len(new) = Last.count
               /\ n >= 3
               /\ lines[1] = "\n"
               /\ lines[2] = "# --- Merged from .bashrc ---\n"
               /\ lines[n] = "# --- End of .bashrc merge ---\n"
               /\ \A k \in 1..n : EndsWith(lines[k], "\n")
               /\ Join(SubSeq(lines, 3, n - 1)) = Want[Len(new)]

C11_Witness ==
    /\ Returned("merge")
    /\ Last.count >= 2
    /\ Last.pre_zshrc.content # ""
    /\ \E k \in 1..Last.count :
           ~EndsWith(transform_to_zsh(
               find_new_entries(Last.pre_bashrc, Last.pre_zshrc)[k]), "\n")

\* C12: every backup file beside the destination is named
\* <name of the destination>.backup.<YYYYMMDD_HHMMSS>, whatever name the
\* destination was given.
C12_BackupNamedAfterDest ==
    \A n \in DOMAIN backups :
        \E t \in 0..MaxClock : n = zshrc_name \o ".backup." \o Stamp(t)

\* The entries of a file, as a set.
EntriesOf(file) ==
    LET entries == extract_config_entries(file)
    IN  {entries[i] : i \in 1..Len(entries)}

ResultSet == {result[i] : i \in 1..Len(result)}

\* The first physical line of an entry, trimmed, without its inline comment.
FirstLineKey(e) ==
    LET nl == Find(e, "\n", 1)
        first == Strip(IF nl = 0 THEN e ELSE Sub(e, 1, nl - 1))
        h == Find(first, "#", 1)
    IN  IF h > 1 THEN Strip(Sub(first, 1, h - 1)) ELSE first

\* An entry of one physical line.
SingleLine(e) == Find(e, "\n", 1) \in {0, Len(e)}

BashrcLines == ReadLines(bashrc.content)

\* The lines that open a function block no later line closes.
OpenAtEOF ==
    {k \in 1..Len(BashrcLines) :
        /\ IsFunctionOpener(BashrcLines[k])
        /\ \A j \in (k + 1)..Len(BashrcLines) : Strip(BashrcLines[j]) # "}"}

\* C14: a function block without a closing `}` line, or a backslash
\* continuation, that runs to the end of the file is the last entry the
\* extractor returns, with all the lines accumulated up to the end of file.
C14_UnterminatedEmitted ==
    fn = "extract_config_entries"
        => LET lines == BashrcLines
               n == Len(lines)
           IN  /\ OpenAtEOF # {}
                   => /\ result # <<>>
                      /\ EndsWith(result[Len(result)],
                                  Join(SubSeq(lines, MaxOf(OpenAtEOF), n)))
               /\ (/\ n > 0
                   /\ \A k \in 1..n : ~IsFunctionOpener(lines[k])
                   /\ is_significant_line(lines[n])
                   /\ EndsWith(Strip(lines[n]), "\\"))
                   => /\ result # <<>>
                      /\ EndsWith(result[Len(result)], lines[n])

\* C15: every line from the first function opener of the file up to and
\* including the first later line that is exactly `}` is, verbatim and in
\* order, in one entry that starts with that opener.
C15_FunctionBlockVerbatim ==
    fn = "extract_config_entries"
        => LET lines == BashrcLines
               n == Len(lines)
               openers == {k \in 1..n : IsFunctionOpener(lines[k])}
               k == MinOf(openers)
               closers == {j \in (k + 1)..n : Strip(lines[j]) = "}"}
           IN  (openers # {} /\ closers # {})
                   => \E i \in 1..Len(result) :
                          result[i] = Join(SubSeq(lines, k, MinOf(closers)))

\* The lines of the entry handed to transform_to_zsh, and of what it returned.
InLines == SplitNL(entry)

OutLines == SplitNL(result)

\* A line `shopt -s o1 ... on` or `shopt -u o1 ... on`, n >= 1.
ShoptForm(line) ==
    LET t == SplitWS(line)
    IN  /\ StartsWith(line, "shopt")
        /\ Len(t) >= 3
        /\ t[1] = "shopt"
        /\ t[2] \in {"-s", "-u"}

\* The output the claim gives for a line of that form.
SetoptLines(line) ==
    LET t == SplitWS(line)
        word == IF t[2] = "-s" THEN "setopt" ELSE "unsetopt"
        m(o) == CASE o = "histappend" -> "append_history"
                  [] o = "cdspell"    -> "correct"
                  [] o = "nocaseglob" -> "no_case_glob"
                  [] o = "extglob"    -> "extended_glob"
                  [] o = "dotglob"    -> "glob_dots"
                  [] o = "nullglob"   -> "null_glob"
                  [] OTHER            -> o
    IN  [i \in 1..(Len(t) - 2) |-> word \o " " \o m(t[i + 2])]

\* C16: an entry made of lines `shopt -s o1 ... on` / `shopt -u o1 ... on`
\* is transformed, line for line, to n lines `setopt m(oi)` / `unsetopt
\* m(oi)` each, m being the option table and the identity elsewhere; no
\* output line is a shopt command.
C16_ShoptToSetopt ==
    (fn = "transform_to_zsh" /\ \A k \in 1..Len(InLines) : ShoptForm(InLines[k]))
        => LET Want[k \in 0..Len(InLines)] ==
                   IF k = 0 THEN <<>> ELSE Want[k - 1] \o SetoptLines(InLines[k])
           IN  /\ OutLines = Want[Len(InLines)]
               /\ \A i \in 1..Len(OutLines) : SplitWS(OutLines[i])[1] # "shopt"

C16_Witness ==
    /\ fn = "transform_to_zsh"
    /\ Len(InLines) = 2
    /\ \A k \in 1..2 : ShoptForm(InLines[k])
    /\ \E k \in 1..2 : SplitWS(InLines[k])[2] = "-u"
    /\ Len(OutLines) = 6
    /\ OutLines[3] = "setopt null_glob"
    /\ OutLines[4] = "setopt globstar"

\* A line the shopt, PROMPT_COMMAND, completion or bash-only rule applies to.
RuleLine(line) ==
    LET t == SplitWS(line)
    IN  /\ t # <<>>
        /\ \/ t[1] \in {"shopt", "complete", "compgen"}
           \/ StartsWith(t[1], "PROMPT_COMMAND=")

\* No line of the entry is a shopt line, so that transform_to_zsh returns one
\* line for each line of the entry.
NoShopt == \A k \in 1..Len(InLines) : ~ShoptForm(InLines[k])

\* A line PROMPT_COMMAND='<cmd>' or PROMPT_COMMAND="<cmd>", and its <cmd>.
PromptForm(line) ==
    /\ StartsWith(line, "PROMPT_COMMAND=")
    /\ Len(line) >= 17
    /\ Ch(line, 16) \in {"'", "\""}
    /\ Ch(line, Len(line)) = Ch(line, 16)

PromptCmd(line) == Sub(line, 17, Len(line) - 1)

\* C17 (as claimed): a line PROMPT_COMMAND='<cmd>' or PROMPT_COMMAND="<cmd>"
\* is transformed to exactly precmd() { <cmd> }, and the output line holds no
\* PROMPT_COMMAND substring, whatever <cmd> is.
C17_PromptNoResidue ==
    (fn = "transform_to_zsh" /\ NoShopt)
        => \A k \in 1..Len(InLines) :
               PromptForm(InLines[k])
                   => /\ Len(OutLines) = Len(InLines)
                      /\ OutLines[k] = "precmd() { " \o PromptCmd(InLines[k]) \o " }"
                      /\ ~Contains(OutLines[k], "PROMPT_COMMAND")

\* C17 (amended): such a line is transformed to exactly precmd() { <cmd> };
\* the output line holds no PROMPT_COMMAND substring unless <cmd> holds one.
C17_PromptToPrecmd ==
    (fn = "transform_to_zsh" /\ NoShopt)
        => \A k \in 1..Len(InLines) :
               PromptForm(InLines[k])
                   => /\ Len(OutLines) = Len(InLines)
                      /\ OutLines[k] = "precmd() { " \o PromptCmd(InLines[k]) \o " }"
                      /\ ~Contains(PromptCmd(InLines[k]), "PROMPT_COMMAND")
                             => ~Contains(OutLines[k], "PROMPT_COMMAND")

C17_Witness ==
    /\ fn = "transform_to_zsh"
    /\ Len(InLines) = 2
    /\ PromptForm(InLines[1]) /\ PromptForm(InLines[2])
    /\ Contains(PromptCmd(InLines[1]), "PROMPT_COMMAND")
    /\ Contains(PromptCmd(InLines[2]), "\"")
    /\ Contains(OutLines[1], "PROMPT_COMMAND")
    /\ StartsWith(OutLines[2], "precmd() { ")

\* Whether a bare reference $VAR (no word character after it) starts at j.
BareRefAt(s, j, var) ==
    /\ StartsWithAt(s, j, "$" \o var)
    /\ ~IsWord(Ch(s, j + Len(var) + 1))

HasBareRef(s, var) == \E j \in 1..Len(s) : BareRefAt(s, j, var)

HasBracedRef(s, var) == Contains(s, "${" \o var \o "}")

\* s from position i on, with each ${BASHPID} and each $BASHPID replaced by $$.
RECURSIVE PidReplaced(_, _)
PidReplaced(s, i) ==
    IF i > Len(s) THEN ""
    ELSE IF StartsWithAt(s, i, "${BASHPID}") THEN "$$" \o PidReplaced(s, i + 10)
    ELSE IF BareRefAt(s, i, "BASHPID") THEN "$$" \o PidReplaced(s, i + 8)
    ELSE Ch(s, i) \o PidReplaced(s, i + 1)

\* C18 (as claimed): whatever the entry, what transform returns holds no
\* reference $BASHPID or ${BASHPID}.
C18_NoBashpidRemains ==
    fn = "transform_to_zsh"
        => ~HasBareRef(result, "BASHPID") /\ ~HasBracedRef(result, "BASHPID")

\* C18 (amended): on every line that none of the shopt, PROMPT_COMMAND,
\* completion and bash-only rules rewrites, each ${BASHPID} and each $BASHPID
\* not followed by a word character is replaced by $$, and no bare $BASHPID
\* reference remains on that line.
C18_BashpidReplacedOnPlainLines ==
    (fn = "transform_to_zsh" /\ NoShopt)
        => /\ Len(OutLines) = Len(InLines)
           /\ \A k \in 1..Len(InLines) :
                  ~RuleLine(InLines[k])
                      => /\ ~HasBareRef(OutLines[k], "BASHPID")
                         /\ ~Contains(InLines[k], "BASH_")
                                => OutLines[k] = PidReplaced(InLines[k], 1)

C18_Witness ==
    /\ fn = "transform_to_zsh"
    /\ Len(InLines) = 2
    /\ ~RuleLine(InLines[1])
    /\ HasBareRef(InLines[1], "BASHPID") /\ HasBracedRef(InLines[1], "BASHPID")
    /\ OutLines[1] = "echo $$ $$"
    /\ RuleLine(InLines[2])
    /\ HasBareRef(OutLines[2], "BASHPID")

\* C19: on a line no rule rewrites, a bare reference $BASH_VERSION or
\* $BASH_REMATCH becomes the bare reference $ZSH_VERSION or $match, and a
\* braced one becomes the braced reference ${ZSH_VERSION} or ${match}.
C19_ReferenceFormKept ==
    (fn = "transform_to_zsh" /\ NoShopt)
        => \A k \in 1..Len(InLines) :
               ~RuleLine(InLines[k])
                   => /\ Len(OutLines) = Len(InLines)
                      /\ HasBareRef(InLines[k], "BASH_VERSION")
                             => HasBareRef(OutLines[k], "ZSH_VERSION")
                      /\ HasBracedRef(InLines[k], "BASH_VERSION")
                             => HasBracedRef(OutLines[k], "ZSH_VERSION")
                      /\ HasBareRef(InLines[k], "BASH_REMATCH")
                             => HasBareRef(OutLines[k], "match")
                      /\ HasBracedRef(InLines[k], "BASH_REMATCH")
                             => HasBracedRef(OutLines[k], "match")

\* C20: on a line no rule rewrites, every reference to BASH_SOURCE, the
\* form ${BASH_SOURCE[0]} included, is replaced by ${(%):-%x}, and the
\* output line holds no BASH_SOURCE substring.
C20_BashSourceReplaced ==
    (fn = "transform_to_zsh" /\ NoShopt)
        => \A k \in 1..Len(InLines) :
               (/\ ~RuleLine(InLines[k])
                /\ \/ HasBareRef(InLines[k], "BASH_SOURCE")
                   \/ HasBracedRef(InLines[k], "BASH_SOURCE")
                   \/ Contains(InLines[k], "${BASH_SOURCE[0]}"))
                   => /\ Len(OutLines) = Len(InLines)
                      /\ Contains(OutLines[k], "${(%):-%x}")
                      /\ ~Contains(OutLines[k], "BASH_SOURCE")

\* The leading whitespace of a line.
LeadingSpace(line) == Sub(line, 1, Len(line) - Len(LStrip(line)))

\* No line of the entry is one the shopt rule rewrites.
NoShoptMatch == \A k \in 1..Len(InLines) : ~shopt_match(InLines[k])

\* C21: a line whose first token is shopt, complete or compgen and that the
\* shopt, PROMPT_COMMAND and completion rules did not rewrite becomes
\* <indentation># [bash-only] <trimmed line>, with or without arguments.
C21_BashOnlyCommented ==
    (fn = "transform_to_zsh" /\ NoShoptMatch)
        => \A k \in 1..Len(InLines) :
               (/\ SplitWS(InLines[k]) # <<>>
                /\ SplitWS(InLines[k])[1] \in {"shopt", "complete", "compgen"}
                /\ ~complete_match(InLines[k]))
                   => /\ Len(OutLines) = Len(InLines)
                      /\ OutLines[k] = LeadingSpace(InLines[k]) \o "# [bash-only] "
                                           \o Strip(InLines[k])

\* C22: transform returns every comment line and every blank line of the
\* entry unchanged, whatever the comment says.
C22_CommentsUnchanged ==
    (fn = "transform_to_zsh" /\ NoShoptMatch)
        => \A k \in 1..Len(InLines) :
               (Strip(InLines[k]) = "" \/ StartsWith(Strip(InLines[k]), "#"))
                   => /\ Len(OutLines) = Len(InLines)
                      /\ OutLines[k] = InLines[k]

\* C26: every line the shopt, PROMPT_COMMAND, completion and bash-only
\* rules generate for a line starts with the leading whitespace of that
\* line, spaces and tabs alike.
C26_IndentationKept ==
    (fn = "transform_to_zsh" /\ Len(InLines) = 1 /\ RuleLine(entry))
        => \A i \in 1..Len(OutLines) :
               StartsWith(OutLines[i], LeadingSpace(entry))

\* C23: while and after safe_write_file runs, the target holds its complete
\* previous content (or is absent as before) or the complete new content; when
\* writing the temporary file or the rename has failed, the error is raised,
\* no temporary file is left and the target is as before; when the call has
\* returned, the target holds the given content.
C23_SafeWriteAtomic ==
    (fn = "safe_write_file" /\ calls # <<>>)
        => LET c == calls[Len(calls)]
           IN  /\ file_path \in {c.pre_file, File(c.content)}
               /\ (c.status = "raised" /\ c.failed = "write")
                      => ~temp_path.exists /\ file_path = c.pre_file
               /\ c.status = "returned" => file_path = File(c.content)

\* The files of a directory that belong to a session.
FilesOf(dir, session) ==
    {n \in DOMAIN dir : get_session_from_file(dir[n]) = session}

\* The N files of S with the newest timestamps in their names.
Newest(S, N) ==
    {f \in S :
        Cardinality({g \in S : parse_timestamp_from_filename(g)
                                   > parse_timestamp_from_filename(f)}) < N}

\* What the claim says of the cleanup that has just run.
CleanupKeepsNewest ==
    LET c == calls[1]
        N == keep_last_n
    IN  /\ c.dry_run => backup_dir = c.pre_dir /\ archive_dir = c.pre_archive
        /\ ~c.dry_run
              => \A session \in {"main", "work", "unknown"} :
                     LET before == FilesOf(c.pre_dir, session)
                     IN  /\ FilesOf(backup_dir, session) =
                                IF Cardinality(before) > N THEN Newest(before, N)
                                ELSE before
                         /\ \A f \in FilesOf(backup_dir, session) :
                                backup_dir[f] = c.pre_dir[f]

\* C24: for any keep_last_n = N, a non-dry-run cleanup leaves
\* every session that had more than N snapshots with exactly its N newest and
\* the other sessions with all theirs; a dry-run cleanup moves and deletes none.
C24_CleanupKeepsLastN == fn = "cleanup" => CleanupKeepsNewest

\* C25: in a file without function blocks, no line between a guard line
\* `if [ -f <path> ]` and the next `fi` line is part of an extracted entry,
\* and neither are the guard line and the `fi` line.
C25_GuardSkippedWhole ==
    fn = "extract_config_entries"
        => LET lines == BashrcLines
               n == Len(lines)
           IN  (\A h \in 1..n : ~IsFunctionOpener(lines[h]))
                   => \A i \in 1..n : \A k \in (i + 1)..n :
                          (/\ MatchesGuard(lines[i])
                           /\ MatchesFi(lines[k])
                           /\ \A j \in (i + 1)..(k - 1) : ~MatchesFi(lines[j]))
                              => \A j \in i..k : \A e \in ResultSet :
                                     ~Contains(e, lines[j])

\* Whether text, read as a file, ends inside a function block without a `}`
\* line or with a pending backslash continuation.
EndsOpen(text) ==
    LET lines == ReadLines(text)
        n == Len(lines)
        significant == {k \in 1..n : is_significant_line(lines[k])}
    IN  \/ \E k \in 1..n :
               /\ IsFunctionOpener(lines[k])
               /\ \A j \in (k + 1)..n : Strip(lines[j]) # "}"
        \/ /\ significant # {}
           /\ EndsWith(Strip(lines[MaxOf(significant)]), "\\")

\* C27: when .zshrc did not end inside an open function block or a pending
\* continuation and transform changed no new entry, a non-dry-run merge that
\* directly follows a non-dry-run merge finds zero new entries and leaves
\* .zshrc and the backups as they were.
C27_RestrictedIdempotence ==
    (/\ pc = "idle"
     /\ calls # <<>>
     /\ Last.op = "merge"
     /\ Last.status = "returned"
     /\ PrevReturned("merge")
     /\ ~EndsOpen(Prev.pre_zshrc.content)
     /\ LET new == find_new_entries(Prev.pre_bashrc, Prev.pre_zshrc)
        IN  \A k \in 1..Len(new) : transform_to_zsh(new[k]) = new[k])
        => /\ Last.count = 0
           /\ zshrc = Last.pre_zshrc
           /\ backups = Last.pre_backups

C27_Witness ==
    /\ Returned("merge")
    /\ PrevReturned("merge")
    /\ Prev.count >= 2
    /\ ~EndsOpen(Prev.pre_zshrc.content)
    /\ Prev.pre_zshrc.content # ""
    /\ LET new == find_new_entries(Prev.pre_bashrc, Prev.pre_zshrc)
       IN  \A k \in 1..Len(new) : transform_to_zsh(new[k]) = new[k]
    /\ Last.count = 0
    /\ Last.pre_zshrc # Prev.pre_zshrc
    /\ Cardinality(DOMAIN backups) = 1

\* C28: a significant line that ends in a backslash, stands outside a
\* function block and is directly followed by the opener of a function block
\* that a `}` line closes, is part of some extracted entry.
C28_ContinuationKept ==
    fn = "extract_config_entries"
        => LET lines == BashrcLines
               n == Len(lines)
           IN  \A i \in 1..(n - 1) :
                   (/\ is_significant_line(lines[i])
                    /\ EndsWith(Strip(lines[i]), "\\")
                    /\ \A h \in 1..i : ~IsFunctionOpener(lines[h])
                    /\ IsFunctionOpener(lines[i + 1])
                    /\ \E k \in (i + 2)..n : Strip(lines[k]) = "}")
                       => \E e \in ResultSet : Contains(e, lines[i])

\* The destination as the k-th call left it.
PostZshrc(k) == IF k < Len(calls) THEN calls[k + 1].pre_zshrc ELSE zshrc

\* C29: between operations, every returned non-dry-run operation that changed
\* an existing destination still has a backup file whose content is the
\* content the destination had immediately before that operation.
C29_BackupsNeverOverwritten ==
    pc = "idle"
        => \A k \in 1..Len(calls) :
               (/\ ~calls[k].dry_run
                /\ calls[k].status = "returned"
                /\ calls[k].pre_zshrc.exists
                /\ PostZshrc(k) # calls[k].pre_zshrc)
                   => \E name \in DOMAIN backups :
                          backups[name] = calls[k].pre_zshrc.content

\* A function definition that opens and closes on the one line.
OneLineFunction(line) ==
    /\ IsFunctionOpener(line)
    /\ Contains(line, "{")
    /\ EndsWith(Strip(line), "}")

\* C30: when the first function opener of a file is a one-line function,
\* that line is an entry of its own, and so is every significant line after
\* it that is no opener, no `}` line and does not end in a backslash.
C30_OneLineFunction ==
    fn = "extract_config_entries"
        => LET lines == BashrcLines
               n == Len(lines)
           IN  \A i \in 1..n :
                   (/\ OneLineFunction(lines[i])
                    /\ \A h \in 1..(i - 1) : ~IsFunctionOpener(lines[h]))
                       => /\ lines[i] \in ResultSet
                          /\ \A j \in (i + 1)..n :
                                 (/\ is_significant_line(lines[j])
                                  /\ ~IsFunctionOpener(lines[j])
                                  /\ Strip(lines[j]) # "}"
                                  /\ ~EndsWith(Strip(lines[j]), "\\"))
                                     => lines[j] \in ResultSet

====
